---- MODULE Spec2Model ----
(***************************************************************************)
(* Trend-propagation inference engine of historical-ui:                    *)
(* src/utils/indicatorAnalysis.ts, extractTrendIndicators; its earlier,    *)
(* loop-based version; the subscriptions of services/predictionService.ts. *)
(*                                                                         *)
(* Representation.                                                         *)
(*   - a timeframe id ("5m") is the sequence of its characters <<"5","m">> *)
(*     so that timeframeToSeconds parses it as the regular expression does;*)
(*   - a datetime is a number of seconds; DateGetTime turns it into the    *)
(*     milliseconds `new Date(..).getTime()` yields;                       *)
(*   - a nullable value (lastSignal, end_datetime, validParent) is <<>>    *)
(*     for null and <<v>> otherwise;                                       *)
(*   - the signal store (a JS object) is the sequence of its entries       *)
(*     [key, value] in Object.keys order;                                  *)
(*   - a directional_change_percent is the exact fraction [num, den] of    *)
(*     the real number the floating-point expression approximates;         *)
(*   - the id `Prop_${n}` is <<"Prop", n>>.                                *)
(***************************************************************************)
EXTENDS Integers, Sequences, FiniteSets, TLC

VARIABLES
    allPredictions,      \* argument: Record<string, PredictionEntry[]>
    selectedTimeframes,  \* argument: string[]
    csvData,             \* argument: CandlestickData[]
    propagationCounter,  \* the id counter, as the last invocation left it
    returned,            \* the values returned by the invocations so far
    parents,             \* per invocation, the validParent of each propagation
    tracked,             \* per invocation, allSignals at its end
    isInitialized,       \* predictionService: let isInitialized
    currentSixteenTimesMode, \* predictionService: let currentSixteenTimesMode
    csvDataCallbacks,    \* csvService: const csvDataCallbacks
    predictionCallbacks, \* predictionService: const predictionCallbacks
    lastCall,            \* the function called last
    notified             \* calls of notifyAllPredictionUpdates it made

engineVars == <<allPredictions, selectedTimeframes, csvData, propagationCounter,
                returned, parents, tracked>>
serviceVars == <<isInitialized, currentSixteenTimesMode, csvDataCallbacks,
                 predictionCallbacks, lastCall, notified>>
vars == <<allPredictions, selectedTimeframes, csvData, propagationCounter,
          returned, parents, tracked, isInitialized, currentSixteenTimesMode,
          csvDataCallbacks, predictionCallbacks, lastCall, notified>>

----------------------------------------------------------------------------
(* Bounds of the explored inputs *)

\* datetimes of the signals and candles are 1..MaxTime
MaxTime == 3
\* a signal store holds at most MaxSignals signals over all timeframes
MaxSignals == 4
\* extractTrendIndicators is invoked at most MaxCalls times on the inputs
MaxCalls == 2
\* where the timeframe ids vary, a timeframe holds at most MaxPerKey signals
MaxPerKey == 1
\* csvDataCallbacks holds at most MaxSubscriptions callbacks
MaxSubscriptions == 3

Times == 1..MaxTime
Values == {-1, 0, 1}

tf1m == <<"1", "m">>
tf5m == <<"5", "m">>
tf1h == <<"1", "h">>
tf4h == <<"4", "h">>
tf1s == <<"1", "s">>
tf60s == <<"6", "0", "s">>
tf1d == <<"1", "d">>
tf30d == <<"3", "0", "d">>
tf1w == <<"1", "w">>
tf1mo == <<"1", "m", "o">>
\* ids that do not match /^(\d+)(s|m|h|d|w|mo)$/
tf5x == <<"5", "x">>
tfd == <<"d">>

----------------------------------------------------------------------------
(* Generic helpers: JavaScript array operations *)

\* Array.prototype.sort with a consistent comparator: stable.
\* Cmp(a, b) < 0 puts a before b; Cmp(a, b) = 0 keeps the original order.
SortWith(seq, Cmp(_, _)) ==
    LET n == Len(seq)
        before(j, i) == \/ Cmp(seq[j], seq[i]) < 0
                        \/ (Cmp(seq[j], seq[i]) = 0 /\ j < i)
        pos(i) == Cardinality({j \in 1..n : j # i /\ before(j, i)}) + 1
    IN  [p \in 1..n |-> seq[CHOOSE i \in 1..n : pos(i) = p]]

\* Array.prototype.find: <<>> (undefined) or <<first element satisfying Test>>
Find(seq, Test(_)) ==
    LET hits == {i \in 1..Len(seq) : Test(seq[i])}
    IN  IF hits = {} THEN <<>>
        ELSE <<seq[CHOOSE i \in hits : \A j \in hits : i <= j]>>

\* Array.prototype.some
Some(seq, Test(_)) == \E i \in 1..Len(seq) : Test(seq[i])

\* new Date(datetime).getTime(): milliseconds
DateGetTime(datetime) == datetime * 1000

----------------------------------------------------------------------------
(* timeframeToSeconds *)

DigitValue ==
    [c \in {"0", "1", "2", "3", "4", "5", "6", "7", "8", "9"} |->
        CASE c = "0" -> 0 [] c = "1" -> 1 [] c = "2" -> 2 [] c = "3" -> 3
          [] c = "4" -> 4 [] c = "5" -> 5 [] c = "6" -> 6 [] c = "7" -> 7
          [] c = "8" -> 8 [] c = "9" -> 9]

\* length of the leading run of digits: the (\d+) group
RECURSIVE DigitPrefix(_)
DigitPrefix(s) ==
    IF s = <<>> \/ Head(s) \notin DOMAIN DigitValue THEN 0
    ELSE 1 + DigitPrefix(Tail(s))

\* parseInt(digits, 10)
RECURSIVE parseInt(_)
parseInt(ds) ==
    IF ds = <<>> THEN 0
    ELSE parseInt(SubSeq(ds, 1, Len(ds) - 1)) * 10 + DigitValue[ds[Len(ds)]]

Units == {<<"s">>, <<"m">>, <<"h">>, <<"d">>, <<"w">>, <<"m", "o">>}

\* variant: the alternation takes `m` and never falls back to `mo`
timeframeToSeconds_MinutesOnly(timeframe) ==
    LET d == DigitPrefix(timeframe)
        unit == SubSeq(timeframe, d + 1, Len(timeframe))
    IN  IF d = 0 \/ unit \notin (Units \ {<<"m", "o">>}) THEN 0
        ELSE LET value == parseInt(SubSeq(timeframe, 1, d))
             IN  CASE unit = <<"s">> -> value
                   [] unit = <<"m">> -> value * 60
                   [] unit = <<"h">> -> value * 3600
                   [] unit = <<"d">> -> value * 86400
                   [] unit = <<"w">> -> value * 604800

timeframeToSeconds(timeframe) ==
    LET d == DigitPrefix(timeframe)
        unit == SubSeq(timeframe, d + 1, Len(timeframe))
    IN  IF d = 0 \/ unit \notin Units THEN 0
        ELSE LET value == parseInt(SubSeq(timeframe, 1, d))
             IN  CASE unit = <<"s">> -> value
                   [] unit = <<"m">> -> value * 60
                   [] unit = <<"h">> -> value * 3600
                   [] unit = <<"d">> -> value * 86400
                   [] unit = <<"w">> -> value * 604800
                   [] unit = <<"m", "o">> -> value * 2592000

----------------------------------------------------------------------------
(* The signal store and the price lookup *)

\* Object.keys(allPredictions)
ObjectKeys(store) == [i \in 1..Len(store) |-> store[i].key]

\* allPredictions[timeframe] || []
PredictionsOf(store, timeframe) ==
    LET e == Find(store, LAMBDA x : x.key = timeframe)
    IN  IF e = <<>> THEN <<>> ELSE e[1].value

\* timeToPriceMap: the last candle of a time wins; Map.get is <<>> or <<open>>
PriceMapGet(candles, time) ==
    LET hits == {i \in 1..Len(candles) : candles[i].time = time}
    IN  IF hits = {} THEN <<>>
        ELSE <<candles[CHOOSE i \in hits : \A j \in hits : j <= i].open>>

\* variant: a time without a candle takes the price of the latest candle before
getOpenPriceAtDatetime_Nearest(candles, datetime) ==
    LET targetTime == DateGetTime(datetime) \div 1000
        upTo == {i \in 1..Len(candles) : candles[i].time <= targetTime}
    IN  IF upTo = {} THEN 0
        ELSE candles[CHOOSE i \in upTo :
                        \A j \in upTo : candles[j].time <= candles[i].time].open

\* getOpenPriceAtDatetime with the price map: priceMap.get(targetTime) || 0
getOpenPriceAtDatetime(candles, datetime) ==
    LET targetTime == DateGetTime(datetime) \div 1000
        got == PriceMapGet(candles, targetTime)
    IN  IF got = <<>> THEN 0 ELSE got[1]

Fraction(n, d) == [num |-> n, den |-> d]
Zero == Fraction(0, 1)

----------------------------------------------------------------------------
(* extractTrendIndicators, step 1: the initial indicators *)

\* variant: a filter that matches no timeframe is taken as no filter
TimeframesToUse_FallbackAll(store, selected) ==
    LET allTimeframes == ObjectKeys(store)
        kept == SelectSeq(allTimeframes,
                          LAMBDA tf : tf \in {selected[k] : k \in 1..Len(selected)})
    IN  IF Len(kept) > 0 THEN kept ELSE allTimeframes

\* variant: the filter is not applied
TimeframesToUse_IgnoresFilter(store, selected) == ObjectKeys(store)

\* the filter of selectedTimeframes over Object.keys (a fresh array either way)
TimeframesToUse(store, selected) ==
    LET allTimeframes == ObjectKeys(store)
        selectedTimeframesSet == {selected[k] : k \in 1..Len(selected)}
    IN  IF Len(selected) > 0
        THEN SelectSeq(allTimeframes, LAMBDA tf : tf \in selectedTimeframesSet)
        ELSE allTimeframes

CompareTimeframes(a, b) == timeframeToSeconds(a) - timeframeToSeconds(b)

SortedTimeframes(store, selected) ==
    SortWith(TimeframesToUse(store, selected), CompareTimeframes)

CompareDatetime(a, b) == DateGetTime(a.datetime) - DateGetTime(b.datetime)

\* variant: the sort works on the store's own array
SortedPredictions_InPlace(highestFreqPredictions) ==
    [sorted |-> SortWith(highestFreqPredictions, CompareDatetime),
     source |-> SortWith(highestFreqPredictions, CompareDatetime)]

\* [...highestFreqPredictions].sort(..): the sorted array, and the array the
\* store still holds afterwards (the sort works on a copy)
SortedPredictions(highestFreqPredictions) ==
    [sorted |-> SortWith(highestFreqPredictions, CompareDatetime),
     source |-> highestFreqPredictions]

\* variant: a zero signal counts as a direction
EmitsIndicator_AnySignal(lastSignal, pred) ==
    lastSignal = <<>> \/ pred.value # lastSignal[1]

\* the test of the walk: a non-zero signal that differs from lastSignal
EmitsIndicator(lastSignal, pred) ==
    /\ pred.value # 0
    /\ (lastSignal = <<>> \/ pred.value # lastSignal[1])

\* variant: a zero signal forgets the remembered direction
LastSignalAfter_ZeroResets(lastSignal, pred) ==
    IF pred.value = 0 THEN <<>>
    ELSE IF lastSignal = <<>> \/ pred.value # lastSignal[1] THEN <<pred.value>>
    ELSE lastSignal

\* lastSignal after the signal pred
LastSignalAfter(lastSignal, pred) ==
    IF EmitsIndicator(lastSignal, pred) THEN <<pred.value>> ELSE lastSignal

NewIndicator(pred, highestFreqTimeframe, candles) ==
    [datetime |-> pred.datetime,
     trend_type |-> pred.value,
     timeframe |-> highestFreqTimeframe,
     end_datetime |-> <<>>,
     open_price |-> getOpenPriceAtDatetime(candles, pred.datetime),
     directional_change_percent |-> Zero]

\* the first loop over sortedPredictions
WalkPredictions(sortedPredictions, highestFreqTimeframe, candles) ==
    LET n == Len(sortedPredictions)
        st[k \in 0..n] ==
            IF k = 0 THEN [initialIndicators |-> <<>>, lastSignal |-> <<>>]
            ELSE LET prev == st[k - 1]
                     pred == sortedPredictions[k]
                 IN  [initialIndicators |->
                          IF EmitsIndicator(prev.lastSignal, pred)
                          THEN Append(prev.initialIndicators,
                                      NewIndicator(pred, highestFreqTimeframe, candles))
                          ELSE prev.initialIndicators,
                      lastSignal |-> LastSignalAfter(prev.lastSignal, pred)]
    IN  st[n].initialIndicators

\* variant: the run ends at the next non-zero signal, whatever its direction
EndDatetime_NextSignal(indicator, sortedPredictions) ==
    LET laterSignal == Find(sortedPredictions,
                            LAMBDA pred : /\ DateGetTime(pred.datetime) >
                                                DateGetTime(indicator.datetime)
                                          /\ pred.value # 0)
    IN  IF laterSignal # <<>> THEN <<laterSignal[1].datetime>>
        ELSE IF Len(sortedPredictions) > 0
             THEN <<sortedPredictions[Len(sortedPredictions)].datetime>>
             ELSE <<>>

\* variant: no fallback to the last signal
EndDatetime_NullFallback(indicator, sortedPredictions) ==
    LET laterSignal == Find(sortedPredictions,
                            LAMBDA pred : /\ DateGetTime(pred.datetime) >
                                                DateGetTime(indicator.datetime)
                                          /\ pred.value = -indicator.trend_type)
    IN  IF laterSignal # <<>> THEN <<laterSignal[1].datetime>> ELSE <<>>

\* the end_datetime of one indicator: the next opposing signal, else the last
\* signal of sortedPredictions, else null
EndDatetime(indicator, sortedPredictions) ==
    LET startDatetime == DateGetTime(indicator.datetime)
        opposingSignalValue == -indicator.trend_type
        laterSignal == Find(sortedPredictions,
                            LAMBDA pred : /\ DateGetTime(pred.datetime) > startDatetime
                                          /\ pred.value = opposingSignalValue)
    IN  IF laterSignal # <<>> THEN <<laterSignal[1].datetime>>
        ELSE IF Len(sortedPredictions) > 0
             THEN <<sortedPredictions[Len(sortedPredictions)].datetime>>
             ELSE <<>>

InitialIndicators(sortedPredictions, highestFreqTimeframe, candles) ==
    LET walked == WalkPredictions(sortedPredictions, highestFreqTimeframe, candles)
    IN  [k \in 1..Len(walked) |->
            [walked[k] EXCEPT !.end_datetime = EndDatetime(walked[k], sortedPredictions)]]

----------------------------------------------------------------------------
(* extractTrendIndicators, step 2: the propagations *)

\* variant: the counter outlives the call
CounterAtEntry_Carried(left) == left

\* the counter at `let propagationCounter = 0`, whatever an earlier call left
CounterAtEntry(left) == 0

PropId(n) == <<"Prop", n>>

\* variant: the seeds count as the first level of their chains
SeedSignals_LevelOne(initialIndicators, sortedTimeframes, counter) ==
    [k \in 1..Len(initialIndicators) |->
        [datetime |-> initialIndicators[k].datetime,
         datetimeMs |-> DateGetTime(initialIndicators[k].datetime),
         timeframe |-> initialIndicators[k].timeframe,
         timeframeIndex |-> 0,
         trendType |-> initialIndicators[k].trend_type,
         openPrice |-> initialIndicators[k].open_price,
         propagationLevel |-> 1,
         propagationId |-> PropId(counter + k),
         chainInitialPrice |-> initialIndicators[k].open_price]]

\* variant: the counter is incremented after the id is made
SeedSignals_CountsFromZero(initialIndicators, sortedTimeframes, counter) ==
    [k \in 1..Len(initialIndicators) |->
        [datetime |-> initialIndicators[k].datetime,
         datetimeMs |-> DateGetTime(initialIndicators[k].datetime),
         timeframe |-> initialIndicators[k].timeframe,
         timeframeIndex |-> 0,
         trendType |-> initialIndicators[k].trend_type,
         openPrice |-> initialIndicators[k].open_price,
         propagationLevel |-> 0,
         propagationId |-> PropId(counter + k - 1),
         chainInitialPrice |-> initialIndicators[k].open_price]]

\* the level-0 tracked signals, one per initial indicator
SeedSignals(initialIndicators, sortedTimeframes, counter) ==
    [k \in 1..Len(initialIndicators) |->
        LET initialInd == initialIndicators[k]
            idx == {j \in 1..Len(sortedTimeframes) :
                        sortedTimeframes[j] = initialInd.timeframe}
        IN  [datetime |-> initialInd.datetime,
             datetimeMs |-> DateGetTime(initialInd.datetime),
             timeframe |-> initialInd.timeframe,
             timeframeIndex |-> IF idx = {} THEN 0
                                ELSE (CHOOSE j \in idx : TRUE) - 1,
             trendType |-> initialInd.trend_type,
             openPrice |-> initialInd.open_price,
             propagationLevel |-> 0,
             propagationId |-> PropId(counter + k),
             chainInitialPrice |-> initialInd.open_price]]

\* variant: "earlier" is read as earlier in the list
PreviousSameTypeSignal_ByPosition(currentPredictions, pred) ==
    LET at == CHOOSE p \in 1..Len(currentPredictions) :
                  /\ currentPredictions[p] = pred
                  /\ \A q \in 1..(p - 1) : currentPredictions[q] # pred
    IN  Find(SubSeq(currentPredictions, 1, at - 1),
             LAMBDA p : p.value = pred.value /\ p.value # 0)

\* variant: only the latest non-zero signal before this one is looked at
PreviousSameTypeSignal_LatestOnly(currentPredictions, pred) ==
    Find(currentPredictions,
         LAMBDA p : /\ DateGetTime(p.datetime) < DateGetTime(pred.datetime)
                    /\ p.value = pred.value
                    /\ p.value # 0
                    /\ ~Some(currentPredictions,
                             LAMBDA q : /\ q.value # 0
                                        /\ q.datetime > p.datetime
                                        /\ q.datetime < pred.datetime))

\* variant: no repeat suppression
PreviousSameTypeSignal_None(currentPredictions, pred) == <<>>

\* previousSameTypeSignal: an earlier signal of the same value on the timeframe
PreviousSameTypeSignal(currentPredictions, pred) ==
    Find(currentPredictions,
         LAMBDA p : /\ DateGetTime(p.datetime) < DateGetTime(pred.datetime)
                    /\ p.value = pred.value
                    /\ p.value # 0)

\* variant: a parent may be dated after the signal
IsPotentialParent_AnyTime(signal, i, pred) ==
    /\ signal.timeframeIndex < i
    /\ signal.trendType = pred.value

\* variant: the signal's own timeframe counts as faster
IsPotentialParent_SameTimeframe(signal, i, pred) ==
    /\ signal.timeframeIndex <= i
    /\ signal.trendType = pred.value
    /\ signal.datetimeMs <= DateGetTime(pred.datetime)

\* the filter of potentialParents
IsPotentialParent(signal, i, pred) ==
    /\ signal.timeframeIndex < i
    /\ signal.trendType = pred.value
    /\ signal.datetimeMs <= DateGetTime(pred.datetime)

\* variant: the most recent candidate first, whatever its level
CompareParents_MostRecent(a, b) == b.datetimeMs - a.datetimeMs

\* the comparator of potentialParents.sort
CompareParents(a, b) ==
    IF b.propagationLevel # a.propagationLevel
    THEN b.propagationLevel - a.propagationLevel
    ELSE b.datetimeMs - a.datetimeMs

\* variant: no candidate is ever invalidated
HasOpposingSignal_Never(store, parent, pred) == FALSE

\* variant: an opposing signal at the confirming timestamp is let through
HasOpposingSignal_StrictEnd(store, parent, pred) ==
    Some(PredictionsOf(store, parent.timeframe),
         LAMBDA p : /\ DateGetTime(p.datetime) > parent.datetimeMs
                    /\ DateGetTime(p.datetime) < DateGetTime(pred.datetime)
                    /\ p.value = -parent.trendType)

\* hasOpposingSignal: the parent's timeframe turned between parent and pred
HasOpposingSignal(store, parent, pred) ==
    LET parentTimeframePredictions == PredictionsOf(store, parent.timeframe)
        opposingSignalValue == -parent.trendType
    IN  Some(parentTimeframePredictions,
             LAMBDA p : /\ DateGetTime(p.datetime) > parent.datetimeMs
                        /\ DateGetTime(p.datetime) <= DateGetTime(pred.datetime)
                        /\ p.value = opposingSignalValue)

\* validParent: the first potential parent, in sorted order, not invalidated
ValidParent(store, allSignals, i, pred) ==
    LET potentialParents ==
            SelectSeq(allSignals, LAMBDA signal : IsPotentialParent(signal, i, pred))
        ranked == SortWith(potentialParents, CompareParents)
    IN  Find(ranked, LAMBDA parent : ~HasOpposingSignal(store, parent, pred))

\* variant: a level is skipped
NewPropagationLevel_Skip(validParent) == validParent.propagationLevel + 2

NewPropagationLevel(validParent) == validParent.propagationLevel + 1

\* variant: the guard covers the propagation's own price too
DirectionalChange_GuardsBoth(propOpenPrice, validParent) ==
    IF validParent.chainInitialPrice # 0 /\ propOpenPrice # 0
    THEN Fraction((propOpenPrice - validParent.chainInitialPrice) * 100,
                  validParent.chainInitialPrice)
    ELSE Zero

\* variant: measured against the parent's price
DirectionalChange_ParentPrice(propOpenPrice, validParent) ==
    IF validParent.openPrice # 0
    THEN Fraction((propOpenPrice - validParent.openPrice) * 100, validParent.openPrice)
    ELSE Zero

\* directionalChange, against the chain's initial price
DirectionalChange(propOpenPrice, validParent) ==
    IF validParent.chainInitialPrice # 0
    THEN Fraction((propOpenPrice - validParent.chainInitialPrice) * 100,
                  validParent.chainInitialPrice)
    ELSE Zero

NewPropagation(validParent, pred, currentTimeframe, candles) ==
    LET propOpenPrice == getOpenPriceAtDatetime(candles, pred.datetime)
    IN  [propagation_id |-> validParent.propagationId,
         propagation_level |-> NewPropagationLevel(validParent),
         datetime |-> pred.datetime,
         trend_type |-> pred.value,
         higher_freq |-> validParent.timeframe,
         lower_freq |-> currentTimeframe,
         open_price |-> propOpenPrice,
         directional_change_percent |-> DirectionalChange(propOpenPrice, validParent)]

NewSignal(validParent, pred, currentTimeframe, i, candles) ==
    [datetime |-> pred.datetime,
     datetimeMs |-> DateGetTime(pred.datetime),
     timeframe |-> currentTimeframe,
     timeframeIndex |-> i,
     trendType |-> pred.value,
     openPrice |-> getOpenPriceAtDatetime(candles, pred.datetime),
     propagationLevel |-> NewPropagationLevel(validParent),
     propagationId |-> validParent.propagationId,
     chainInitialPrice |-> validParent.chainInitialPrice]

\* variant: a signal without a valid parent is tracked as a chain root
ProcessSignal_TracksDropped(st, store, candles, i, currentTimeframe, currentPredictions, pred) ==
    IF pred.value = 0 THEN st
    ELSE IF PreviousSameTypeSignal(currentPredictions, pred) # <<>> THEN st
    ELSE LET validParent == ValidParent(store, st.allSignals, i, pred)
             root == [propagationLevel |-> 0,
                      propagationId |-> PropId(0),
                      chainInitialPrice |-> getOpenPriceAtDatetime(candles, pred.datetime),
                      timeframe |-> currentTimeframe]
         IN  IF validParent = <<>>
             THEN [st EXCEPT !.allSignals =
                       Append(@, [NewSignal(root, pred, currentTimeframe, i, candles)
                                     EXCEPT !.propagationLevel = 0])]
             ELSE [propagations |->
                       Append(st.propagations,
                              NewPropagation(validParent[1], pred, currentTimeframe, candles)),
                   allSignals |->
                       Append(st.allSignals,
                              NewSignal(validParent[1], pred, currentTimeframe, i, candles)),
                   parents |-> Append(st.parents, validParent[1])]

\* one iteration of `for (const pred of currentPredictions)`; st holds
\* propagations, allSignals and (for the properties) the chosen parents
ProcessSignal(st, store, candles, i, currentTimeframe, currentPredictions, pred) ==
    IF pred.value = 0 THEN st
    ELSE IF PreviousSameTypeSignal(currentPredictions, pred) # <<>> THEN st
    ELSE LET validParent == ValidParent(store, st.allSignals, i, pred)
         IN  IF validParent = <<>> THEN st
             ELSE [propagations |->
                       Append(st.propagations,
                              NewPropagation(validParent[1], pred, currentTimeframe, candles)),
                   allSignals |->
                       Append(st.allSignals,
                              NewSignal(validParent[1], pred, currentTimeframe, i, candles)),
                   parents |-> Append(st.parents, validParent[1])]

\* `for (let i = 1; i < sortedTimeframes.length; i++)`, i being 0-based
\* variant: the list of a slower timeframe is walked in ascending time
CurrentPredictions_Sorted(store, currentTimeframe) ==
    SortWith(PredictionsOf(store, currentTimeframe), CompareDatetime)

\* `allPredictions[currentTimeframe] || []`, walked as it is stored
CurrentPredictions(store, currentTimeframe) ==
    PredictionsOf(store, currentTimeframe)

\* variant: every timeframe sees the seeds only, not the signals tracked on
\* the timeframes before it
ProcessTimeframes_SeedsOnly(store, candles, sortedTimeframes, seeds) ==
    LET n == Len(sortedTimeframes)
        byTimeframe[i \in 0..(n - 1)] ==
            IF i = 0
            THEN [propagations |-> <<>>, allSignals |-> seeds, parents |-> <<>>]
            ELSE LET currentTimeframe == sortedTimeframes[i + 1]
                     currentPredictions == CurrentPredictions(store, currentTimeframe)
                     m == Len(currentPredictions)
                     bySignal[k \in 0..m] ==
                         IF k = 0
                         THEN [byTimeframe[i - 1] EXCEPT !.allSignals = seeds]
                         ELSE ProcessSignal(bySignal[k - 1], store, candles, i,
                                            currentTimeframe, currentPredictions,
                                            currentPredictions[k])
                 IN  bySignal[m]
    IN  byTimeframe[n - 1]

\* the main pass: `for (let i = 1; i < sortedTimeframes.length; i++)`
ProcessTimeframes(store, candles, sortedTimeframes, seeds) ==
    LET n == Len(sortedTimeframes)
        byTimeframe[i \in 0..(n - 1)] ==
            IF i = 0
            THEN [propagations |-> <<>>, allSignals |-> seeds, parents |-> <<>>]
            ELSE LET currentTimeframe == sortedTimeframes[i + 1]
                     currentPredictions == CurrentPredictions(store, currentTimeframe)
                     m == Len(currentPredictions)
                     bySignal[k \in 0..m] ==
                         IF k = 0 THEN byTimeframe[i - 1]
                         ELSE ProcessSignal(bySignal[k - 1], store, candles, i,
                                            currentTimeframe, currentPredictions,
                                            currentPredictions[k])
                 IN  bySignal[m]
    IN  byTimeframe[n - 1]

\* variant: the main pass moves an indicator's end_datetime to the last
\* confirmation of its chain
ReturnedIndicators_EndAtConfirmation(initialIndicators, counter, propagations) ==
    [k \in 1..Len(initialIndicators) |->
        LET chain == SelectSeq(propagations,
                               LAMBDA q : q.propagation_id = PropId(counter + k))
        IN  IF Len(chain) = 0 THEN initialIndicators[k]
            ELSE [initialIndicators[k] EXCEPT
                     !.end_datetime = <<chain[Len(chain)].datetime>>]]

\* the initialIndicators array at `return`: the seeding loop and the main
\* pass read it and never write to it
ReturnedIndicators(initialIndicators, counter, propagations) == initialIndicators

EmptyRun(store, left) ==
    [initialIndicators |-> <<>>, propagations |-> <<>>, parents |-> <<>>,
     allSignals |-> <<>>, counter |-> left, store |-> store]

\* the whole call: the returned lists, the parents chosen, the tracked signals,
\* the counter at the end and the store as the call leaves it
extractTrendIndicators(store, selected, candles, left) ==
    LET sortedTimeframes == SortedTimeframes(store, selected)
    IN  IF Len(sortedTimeframes) = 0 THEN EmptyRun(store, left)
        ELSE
        LET highestFreqTimeframe == sortedTimeframes[1]
            sp == SortedPredictions(PredictionsOf(store, highestFreqTimeframe))
            initialIndicators ==
                InitialIndicators(sp.sorted, highestFreqTimeframe, candles)
            counter == CounterAtEntry(left)
            seeds == SeedSignals(initialIndicators, sortedTimeframes, counter)
            after == [k \in 1..Len(store) |->
                         IF store[k].key = highestFreqTimeframe
                         THEN [store[k] EXCEPT !.value = sp.source]
                         ELSE store[k]]
            run == ProcessTimeframes(after, candles, sortedTimeframes, seeds)
        IN  [initialIndicators |->
                 ReturnedIndicators(initialIndicators, counter, run.propagations),
             propagations |-> run.propagations,
             parents |-> run.parents,
             allSignals |-> run.allSignals,
             counter |-> counter + Len(initialIndicators),
             store |-> after]

----------------------------------------------------------------------------
(* The earlier, loop-based extractTrendIndicators *)

\* getOpenPriceAtDatetime with csvData.find: the first candle of the time
LoopGetOpenPrice(candles, datetime) ==
    LET targetTime == DateGetTime(datetime) \div 1000
        candle == Find(candles, LAMBDA c : c.time = targetTime)
    IN  IF candle = <<>> THEN 0 ELSE candle[1].open

CompareDatetimeDesc(a, b) == DateGetTime(b.datetime) - DateGetTime(a.datetime)

\* laterSignals: the signals of the chain's direction from the chain's
\* datetime to the indicator's end, in ascending time
LoopLaterSignals(nextLowerPredictions, currentChainDatetime, endDatetime, currentType) ==
    SortWith(SelectSeq(nextLowerPredictions,
                       LAMBDA pred : /\ pred.datetime >= currentChainDatetime
                                     /\ pred.datetime <= endDatetime
                                     /\ pred.value = currentType),
             CompareDatetime)

\* previousPredictions: the non-zero signals before the chain's datetime,
\* the most recent first
LoopPreviousPredictions(nextLowerPredictions, currentChainDatetime) ==
    SortWith(SelectSeq(nextLowerPredictions,
                       LAMBDA pred : /\ pred.datetime < currentChainDatetime
                                     /\ pred.value # 0),
             CompareDatetimeDesc)

\* variant: the fastest timeframe is never looked at
LoopOpposingSignalFound_Never(initialFreqPredictions, currentChainDatetime, nextSignalDatetime, currentType) ==
    FALSE

\* opposingSignalFound: the indicator's timeframe turns after the chain's
\* datetime and not after the next signal
LoopOpposingSignalFound(initialFreqPredictions, currentChainDatetime, nextSignalDatetime, currentType) ==
    Some(initialFreqPredictions,
         LAMBDA pred : /\ pred.datetime > currentChainDatetime
                       /\ pred.datetime <= nextSignalDatetime
                       /\ pred.value = -currentType)

\* the chain of one initial indicator: the loop over j, each step holding the
\* chain's datetime and timeframe index, the level, the propagations pushed
\* and whether the loop has hit a break
LoopChain(store, candles, sortedTimeframes, initialInd, currentPropagationId) ==
    LET n == Len(sortedTimeframes)
        currentType == initialInd.trend_type
        currentTimeframeIndex == 0
        endDatetime == initialInd.end_datetime[1]
        initialOpenPrice == initialInd.open_price
        step[j \in 0..(n - 1)] ==
            IF j = 0
            THEN [currentChainDatetime |-> initialInd.datetime,
                  currentChainTimeframeIndex |-> currentTimeframeIndex,
                  propagationLevel |-> 0, propagations |-> <<>>, broken |-> FALSE]
            ELSE
            LET c == step[j - 1]
                nextLowerTimeframe == sortedTimeframes[j + 1]
                nextLowerPredictions == PredictionsOf(store, nextLowerTimeframe)
                laterSignals ==
                    LoopLaterSignals(nextLowerPredictions, c.currentChainDatetime,
                                     endDatetime, currentType)
                nextSignal == laterSignals[1]
                previousPredictions ==
                    LoopPreviousPredictions(nextLowerPredictions,
                                            c.currentChainDatetime)
                initialFreqPredictions ==
                    PredictionsOf(store, sortedTimeframes[currentTimeframeIndex + 1])
                propOpenPrice == LoopGetOpenPrice(candles, nextSignal.datetime)
                directionalChange ==
                    IF initialOpenPrice # 0
                    THEN Fraction((propOpenPrice - initialOpenPrice) * 100,
                                  initialOpenPrice)
                    ELSE Zero
            IN  IF c.broken THEN c
                ELSE IF Len(laterSignals) = 0 THEN [c EXCEPT !.broken = TRUE]
                ELSE IF /\ Len(previousPredictions) > 0
                        /\ previousPredictions[1].value = currentType
                     THEN [c EXCEPT !.broken = TRUE]
                ELSE IF LoopOpposingSignalFound(initialFreqPredictions,
                                                c.currentChainDatetime,
                                                nextSignal.datetime, currentType)
                     THEN [c EXCEPT !.broken = TRUE]
                ELSE [currentChainDatetime |-> nextSignal.datetime,
                      currentChainTimeframeIndex |-> j,
                      propagationLevel |-> c.propagationLevel + 1,
                      propagations |->
                          Append(c.propagations,
                                 [propagation_id |-> currentPropagationId,
                                  propagation_level |-> c.propagationLevel + 1,
                                  datetime |-> nextSignal.datetime,
                                  trend_type |-> currentType,
                                  higher_freq |->
                                      sortedTimeframes[c.currentChainTimeframeIndex + 1],
                                  lower_freq |-> nextLowerTimeframe,
                                  open_price |-> propOpenPrice,
                                  directional_change_percent |-> directionalChange]),
                      broken |-> FALSE]
    IN  step[n - 1].propagations

\* `for (const initialInd of initialIndicators)`: an indicator without
\* end_datetime is passed over before the counter moves
LoopPropagations(store, candles, sortedTimeframes, initialIndicators) ==
    LET m == Len(initialIndicators)
        byIndicator[k \in 0..m] ==
            IF k = 0 THEN [propagations |-> <<>>, propagationCounter |-> 0]
            ELSE LET c == byIndicator[k - 1]
                     initialInd == initialIndicators[k]
                 IN  IF initialInd.end_datetime = <<>> THEN c
                     ELSE [propagations |->
                               c.propagations \o
                               LoopChain(store, candles, sortedTimeframes, initialInd,
                                         PropId(c.propagationCounter + 1)),
                           propagationCounter |-> c.propagationCounter + 1]
    IN  byIndicator[m].propagations

\* the loop-based extractTrendIndicators
LoopExtractTrendIndicators(store, selected, candles) ==
    LET sortedTimeframes == SortedTimeframes(store, selected)
    IN  IF Len(sortedTimeframes) = 0
        THEN [initialIndicators |-> <<>>, propagations |-> <<>>]
        ELSE
        LET highestFreqTimeframe == sortedTimeframes[1]
            sortedPredictions ==
                SortWith(PredictionsOf(store, highestFreqTimeframe), CompareDatetime)
            walked == InitialIndicators(sortedPredictions, highestFreqTimeframe, candles)
            initialIndicators ==
                [k \in 1..Len(walked) |->
                    [walked[k] EXCEPT
                        !.open_price = LoopGetOpenPrice(candles, walked[k].datetime)]]
        IN  [initialIndicators |-> initialIndicators,
             propagations |->
                 LoopPropagations(store, candles, sortedTimeframes, initialIndicators)]

----------------------------------------------------------------------------
(* predictionService and the subscriptions of csvService *)

\* the module-level state of predictionService.ts and csvService as loaded
ServiceIdle ==
    /\ isInitialized = FALSE
    /\ currentSixteenTimesMode = FALSE
    /\ csvDataCallbacks = <<>>
    /\ predictionCallbacks = <<>>
    /\ lastCall = "none"
    /\ notified = 0

\* the arrow function initializePredictionService subscribes: it calls
\* notifyAllPredictionUpdates once
ServiceCallback == [calls |-> "notifyAllPredictionUpdates"]

\* subscribeToCSVDataUpdates: csvDataCallbacks.push(callback); the function it
\* returns is the only way to take the callback out again
subscribeToCSVDataUpdates(callbacks, callback) == Append(callbacks, callback)

\* initializePredictionService: nothing when isInitialized, else subscribe
\* (the unsubscribe function is dropped) and set isInitialized
initializePredictionService ==
    /\ Len(csvDataCallbacks) < MaxSubscriptions
    /\ IF isInitialized
       THEN UNCHANGED <<csvDataCallbacks, isInitialized>>
       ELSE /\ csvDataCallbacks' =
                  subscribeToCSVDataUpdates(csvDataCallbacks, ServiceCallback)
            /\ isInitialized' = TRUE
    /\ lastCall' = "initializePredictionService"
    /\ notified' = 0
    /\ UNCHANGED <<currentSixteenTimesMode, predictionCallbacks>>
    /\ UNCHANGED engineVars

\* cleanupPredictionService: resets the two flags and nothing else
cleanupPredictionService ==
    /\ isInitialized' = FALSE
    /\ currentSixteenTimesMode' = FALSE
    /\ lastCall' = "cleanupPredictionService"
    /\ notified' = 0
    /\ UNCHANGED <<csvDataCallbacks, predictionCallbacks>>
    /\ UNCHANGED engineVars

\* setSixteenTimesMode: on a change, one notifyAllPredictionUpdates
setSixteenTimesMode ==
    /\ \E sixteenTimesMode \in BOOLEAN :
          /\ currentSixteenTimesMode' = sixteenTimesMode
          /\ notified' = IF currentSixteenTimesMode # sixteenTimesMode THEN 1 ELSE 0
    /\ lastCall' = "setSixteenTimesMode"
    /\ UNCHANGED <<isInitialized, csvDataCallbacks, predictionCallbacks>>
    /\ UNCHANGED engineVars

\* notifyCSVDataUpdates: csvDataCallbacks.forEach(callback => callback())
notifyCSVDataUpdates ==
    /\ notified' =
          Cardinality({k \in 1..Len(csvDataCallbacks) :
                          csvDataCallbacks[k].calls = "notifyAllPredictionUpdates"})
    /\ lastCall' = "notifyCSVDataUpdates"
    /\ UNCHANGED <<isInitialized, currentSixteenTimesMode, csvDataCallbacks,
                   predictionCallbacks>>
    /\ UNCHANGED engineVars

\* the components that listen to prediction updates, one callback each
Listeners == {"chart", "panel"}

\* subscribeToPredictionUpdates: predictionCallbacks.push(callback); with no
\* ticker in predictionCache the replay of the cache delivers nothing
subscribeToPredictionUpdates ==
    /\ \E callback \in Listeners :
          /\ \A k \in 1..Len(predictionCallbacks) : predictionCallbacks[k] # callback
          /\ predictionCallbacks' = Append(predictionCallbacks, callback)
    /\ lastCall' = "subscribeToPredictionUpdates"
    /\ notified' = 0
    /\ UNCHANGED <<isInitialized, currentSixteenTimesMode, csvDataCallbacks>>
    /\ UNCHANGED engineVars

\* the function subscribeToPredictionUpdates returned: indexOf and splice
unsubscribeFromPredictionUpdates ==
    /\ \E index \in 1..Len(predictionCallbacks) :
          predictionCallbacks' =
              SubSeq(predictionCallbacks, 1, index - 1) \o
              SubSeq(predictionCallbacks, index + 1, Len(predictionCallbacks))
    /\ lastCall' = "unsubscribeFromPredictionUpdates"
    /\ notified' = 0
    /\ UNCHANGED <<isInitialized, currentSixteenTimesMode, csvDataCallbacks>>
    /\ UNCHANGED engineVars

NextService ==
    \/ initializePredictionService
    \/ cleanupPredictionService
    \/ setSixteenTimesMode
    \/ notifyCSVDataUpdates
    \/ subscribeToPredictionUpdates
    \/ unsubscribeFromPredictionUpdates

----------------------------------------------------------------------------
(* The inputs explored *)

Perms(T) ==
    {p \in [1..Cardinality(T) -> T] :
        \A a, b \in 1..Cardinality(T) : a # b => p[a] # p[b]}

\* the signal lists of one timeframe: any values, any order, at most one
\* signal per timestamp
ListsOver(T) ==
    {[k \in 1..Cardinality(T) |-> [datetime |-> p[k], value |-> v[p[k]]]] :
        p \in Perms(T), v \in [T -> Values]}

PredictionLists == UNION {ListsOver(T) : T \in SUBSET Times}

\* the signal lists in which a timestamp, or a whole signal, can repeat
RepeatLists(maxLen) ==
    UNION {[1..n -> [datetime : Times, value : Values]] : n \in 0..maxLen}

\* the stores with the keys `keys`, in that order, each list taken from lists,
\* holding at most budget signals
RECURSIVE StoresFrom(_, _, _)
StoresFrom(lists, keys, budget) ==
    IF keys = <<>> THEN {<<>>}
    ELSE UNION {
            {<<[key |-> Head(keys), value |-> l]>> \o rest :
                rest \in StoresFrom(lists, Tail(keys), budget - Len(l))} :
            l \in {x \in lists : Len(x) <= budget}}

Stores(keys, budget) == StoresFrom(PredictionLists, keys, budget)

\* the open price of the candle of time t: 100, 110, 90, 100, ...
PriceAt(t) == <<100, 110, 90>>[((t - 1) % 3) + 1]

\* the candles of the times T, in ascending order
CandlesOver(T) ==
    [k \in 1..Cardinality(T) |->
        LET t == CHOOSE u \in T : Cardinality({w \in T : w < u}) = k - 1
        IN  [time |-> t, open |-> PriceAt(t)]]

\* one candle per time
Candles == CandlesOver(Times)

Init ==
    /\ allPredictions \in Stores(<<tf1h, tf1m, tf5m>>, MaxSignals)
    /\ selectedTimeframes = <<>>
    /\ csvData = Candles
    /\ propagationCounter = 0
    /\ returned = <<>>
    /\ parents = <<>>
    /\ tracked = <<>>
    /\ ServiceIdle

\* one invocation of extractTrendIndicators on the inputs
Extract ==
    /\ Len(returned) < MaxCalls
    /\ LET r == extractTrendIndicators(allPredictions, selectedTimeframes,
                                       csvData, propagationCounter)
       IN  /\ returned' = Append(returned,
                                 [initialIndicators |-> r.initialIndicators,
                                  propagations |-> r.propagations])
           /\ parents' = r.parents
           /\ tracked' = r.allSignals
           /\ propagationCounter' = r.counter
           /\ allPredictions' = r.store
    /\ UNCHANGED <<selectedTimeframes, csvData>>
    /\ UNCHANGED serviceVars

Next == Extract

\* every signal priced: any signals, a candle at every time
Spec == Init /\ [][Next]_vars

\* candles missing at any of the times, one signal fewer
InitPrices ==
    /\ allPredictions \in Stores(<<tf1h, tf1m, tf5m>>, MaxSignals - 1)
    /\ selectedTimeframes = <<>>
    /\ csvData \in {CandlesOver(T) : T \in SUBSET Times}
    /\ propagationCounter = 0
    /\ returned = <<>>
    /\ parents = <<>>
    /\ tracked = <<>>
    /\ ServiceIdle

SpecPrices == InitPrices /\ [][Next]_vars

\* several signals at one timestamp of a timeframe, one signal fewer
InitRepeats ==
    /\ allPredictions \in StoresFrom(RepeatLists(MaxSignals - 1),
                                     <<tf1h, tf1m, tf5m>>, MaxSignals - 1)
    /\ selectedTimeframes = <<>>
    /\ csvData = Candles
    /\ propagationCounter = 0
    /\ returned = <<>>
    /\ parents = <<>>
    /\ tracked = <<>>
    /\ ServiceIdle

SpecRepeats == InitRepeats /\ [][Next]_vars

\* the timeframe filters tried: none, ids of the store in any order, an id the
\* store does not hold
Filters ==
    {<<>>, <<tf4h>>, <<tf1m>>, <<tf1h>>, <<tf1h, tf1m>>, <<tf5m, tf1h>>,
     <<tf4h, tf5m>>}

\* a timeframe filter, a store that may have no timeframe, one signal fewer
InitFilter ==
    /\ allPredictions \in Stores(<<tf1h, tf1m, tf5m>>, MaxSignals - 1) \cup {<<>>}
    /\ selectedTimeframes \in Filters
    /\ csvData = Candles
    /\ propagationCounter = 0
    /\ returned = <<>>
    /\ parents = <<>>
    /\ tracked = <<>>
    /\ ServiceIdle

SpecFilter == InitFilter /\ [][Next]_vars

\* the key orders of the stores whose timeframe ids vary: four timeframes out
\* of order, ids of equal duration, ids that do not parse, every unit
KeyOrders ==
    {<<tf4h, tf1h, tf5m, tf1m>>,
     <<tf1h, tf1m, tf4h, tf5m>>,
     <<tf5m, tf1m, tf60s>>,
     <<tf60s, tf1m>>,
     <<tf1m, tf5x, tf5m>>,
     <<tf1h, tfd, tf5x>>,
     <<tf1mo, tf30d, tf1w>>,
     <<tf1d, tf1w, tf1s>>}

\* the lists of at most MaxPerKey signals
ShortLists == {l \in PredictionLists : Len(l) <= MaxPerKey}

\* any of the key orders, short lists, a candle at every time
InitKeys ==
    /\ allPredictions \in
          UNION {StoresFrom(ShortLists, keys, MaxSignals) : keys \in KeyOrders}
    /\ selectedTimeframes = <<>>
    /\ csvData = Candles
    /\ propagationCounter = 0
    /\ returned = <<>>
    /\ parents = <<>>
    /\ tracked = <<>>
    /\ ServiceIdle

SpecKeys == InitKeys /\ [][Next]_vars

\* the services as loaded, the engine not called
InitService ==
    /\ allPredictions = <<>>
    /\ selectedTimeframes = <<>>
    /\ csvData = <<>>
    /\ propagationCounter = 0
    /\ returned = <<>>
    /\ parents = <<>>
    /\ tracked = <<>>
    /\ ServiceIdle

SpecService == InitService /\ [][NextService]_vars

----------------------------------------------------------------------------
(* Vocabulary of the properties: the last invocation's result *)

Called == Len(returned) > 0
Last == returned[Len(returned)]
Props == Last.propagations
Inds == Last.initialIndicators

\* the participating timeframes, and the rank of one of them: the number of
\* participating timeframes that come before it, fastest first
Participating == TimeframesToUse(allPredictions, selectedTimeframes)
RankOf(tf) ==
    LET P == Participating
        at == CHOOSE j \in 1..Len(P) : P[j] = tf
    IN  Cardinality({j \in 1..Len(P) :
            \/ timeframeToSeconds(P[j]) < timeframeToSeconds(tf)
            \/ (timeframeToSeconds(P[j]) = timeframeToSeconds(tf) /\ j < at)})
TimeframeOfRank(r) ==
    LET P == Participating IN P[CHOOSE j \in 1..Len(P) : RankOf(P[j]) = r]

\* the signals of a timeframe, as a set
SignalsOf(tf) ==
    LET l == PredictionsOf(allPredictions, tf) IN {l[k] : k \in 1..Len(l)}
FastestSignals == SignalsOf(TimeframeOfRank(0))

\* the levels of the propagations of one chain, in emission order
LevelsOf(id) ==
    LET chain == SelectSeq(Props, LAMBDA q : q.propagation_id = id)
    IN  [k \in 1..Len(chain) |-> chain[k].propagation_level]
ChainIds == {Props[k].propagation_id : k \in 1..Len(Props)}

----------------------------------------------------------------------------
(* C1 *)

\* C1 as stated: for every propagation_id the levels of its propagations, in
\* emission order, are 1, 2, 3, ...
C1_LevelsCountUp ==
    Called => \A id \in ChainIds :
                \A k \in 1..Len(LevelsOf(id)) : LevelsOf(id)[k] = k

\* C1 amended: for every propagation_id the first propagation emitted has
\* level 1 and every propagation of level L >= 2 comes after a propagation of
\* the same id and level L - 1; a level can repeat within a chain.
C1_LevelsConnected ==
    Called => \A k \in 1..Len(Props) :
                \/ Props[k].propagation_level = 1
                \/ \E j \in 1..(k - 1) :
                      /\ Props[j].propagation_id = Props[k].propagation_id
                      /\ Props[j].propagation_level = Props[k].propagation_level - 1

\* a chain that reaches level 2
C1_Witness ==
    /\ Called
    /\ \E id \in ChainIds : LevelsOf(id) = <<1, 2>>

----------------------------------------------------------------------------
(* C2 *)

\* C2: the timeframe of the parent of a propagation holds no signal opposing
\* the parent with a timestamp in (parent's, propagation's].
C2_NoPrematureConfirmation ==
    Called => \A k \in 1..Len(Props) :
                \A s \in SignalsOf(parents[k].timeframe) :
                    ~ /\ s.value = -parents[k].trendType
                      /\ s.datetime > parents[k].datetime
                      /\ s.datetime <= Props[k].datetime

\* a propagation that passed over a further-advanced candidate (an earlier
\* propagation of its direction on a faster timeframe, of a level above its
\* parent's) because that candidate's timeframe turned at the confirming time
C2_Witness ==
    /\ Called
    /\ \E k \in 1..Len(Props) : \E j \in 1..(k - 1) :
          /\ Props[j].trend_type = Props[k].trend_type
          /\ Props[j].datetime <= Props[k].datetime
          /\ RankOf(Props[j].lower_freq) < RankOf(Props[k].lower_freq)
          /\ Props[j].propagation_level > parents[k].propagationLevel
          /\ \E s \in SignalsOf(Props[j].lower_freq) :
                /\ s.value = -Props[j].trend_type
                /\ s.datetime = Props[k].datetime

----------------------------------------------------------------------------
(* C3 *)

\* C3: the rank of lower_freq is strictly greater than the rank of higher_freq.
C3_TimeframeMonotonicity ==
    Called => \A k \in 1..Len(Props) :
                RankOf(Props[k].lower_freq) > RankOf(Props[k].higher_freq)

\* a signal listed twice on a timeframe, both producing a propagation: the
\* second one finds the first one tracked, on its own timeframe
C3_Witness ==
    /\ Called
    /\ \E j, k \in 1..Len(Props) :
          /\ j < k
          /\ Props[j].lower_freq = Props[k].lower_freq
          /\ Props[j].datetime = Props[k].datetime
          /\ Props[j].trend_type = Props[k].trend_type

----------------------------------------------------------------------------
(* C4 *)

\* C4: no propagation is produced by a signal that has an earlier signal of the
\* same value on its timeframe.
C4_RepeatSuppression ==
    Called => \A k \in 1..Len(Props) :
                \A s \in SignalsOf(Props[k].lower_freq) :
                    ~ (s.value = Props[k].trend_type /\ s.datetime < Props[k].datetime)

\* a later signal that had a valid parent (an initial indicator of its
\* direction, not after it, the fastest timeframe not turning in between),
\* after an opposite signal, the earliest one having produced nothing
C4_Witness ==
    /\ Called
    /\ Props = <<>>
    /\ \E tf \in {Participating[j] : j \in 1..Len(Participating)} :
          /\ RankOf(tf) > 0
          /\ \E a, b, c \in SignalsOf(tf) :
                /\ a.value = c.value /\ a.value # 0 /\ b.value = -a.value
                /\ a.datetime < b.datetime /\ b.datetime < c.datetime
                /\ \E n \in 1..Len(Inds) :
                      /\ Inds[n].trend_type = c.value
                      /\ Inds[n].datetime <= c.datetime
                      /\ Inds[n].datetime > a.datetime
                      /\ \A s \in FastestSignals :
                            ~ /\ s.value = -c.value
                              /\ s.datetime > Inds[n].datetime
                              /\ s.datetime <= c.datetime

----------------------------------------------------------------------------
(* C5 *)

\* the initial indicator a propagation's id names: Prop_n is the n-th one
Origin(k) == Inds[Props[k].propagation_id[2]]

\* C5: directional_change_percent is (open_price - origin's open_price) /
\* origin's open_price * 100, and 0 when the origin's open_price is 0.
C5_OriginRelative ==
    Called => \A k \in 1..Len(Props) :
                LET o == Origin(k).open_price
                    d == Props[k].directional_change_percent
                IN  IF o = 0 THEN d = Zero
                    ELSE /\ d.den # 0
                         /\ d.num * o = (Props[k].open_price - o) * 100 * d.den

\* the chain of prices 100, 110, 90 at levels 0, 1, 2: -10 at level 2
C5_Witness ==
    /\ Called
    /\ \E k \in 1..Len(Props) :
          /\ Props[k].propagation_level = 2
          /\ Origin(k).open_price = 100
          /\ parents[k].openPrice = 110
          /\ Props[k].open_price = 90
          /\ Props[k].directional_change_percent.num =
                -10 * Props[k].directional_change_percent.den

----------------------------------------------------------------------------
(* C6 *)

\* the signals of the fastest timeframe at which the direction changes: non-zero
\* and unlike the latest non-zero signal before them, if there is one
Turns ==
    {s \in FastestSignals :
        /\ s.value # 0
        /\ \A e \in FastestSignals :
              (e.value # 0 /\ e.datetime < s.datetime /\ e.value = s.value)
              => \E m \in FastestSignals :
                    /\ m.value = -s.value
                    /\ e.datetime < m.datetime /\ m.datetime < s.datetime}

\* C6: the initial indicators are, in ascending time order, exactly the non-zero
\* signals of the fastest timeframe whose value differs from the previous
\* non-zero signal's.
C6_IndicatorsAtTurns ==
    Called =>
        /\ Len(Inds) = Cardinality(Turns)
        /\ \A k \in 1..Len(Inds) :
              [datetime |-> Inds[k].datetime, value |-> Inds[k].trend_type] \in Turns
        /\ \A k \in 1..(Len(Inds) - 1) : Inds[k].datetime < Inds[k + 1].datetime

\* +1@1, 0@2, +1@3 gives one indicator, at 1
C6_Witness ==
    /\ Called
    /\ FastestSignals = {[datetime |-> 1, value |-> 1],
                         [datetime |-> 2, value |-> 0],
                         [datetime |-> 3, value |-> 1]}
    /\ Len(Inds) = 1
    /\ Inds[1].datetime = 1

----------------------------------------------------------------------------
(* C7 *)

\* C7: end_datetime is the time of the first later opposing signal of the
\* fastest timeframe, else the time of its last signal; never null.
C7_EndDatetime ==
    Called => \A k \in 1..Len(Inds) :
                LET later == {s \in FastestSignals :
                                 /\ s.datetime > Inds[k].datetime
                                 /\ s.value = -Inds[k].trend_type}
                IN  /\ Inds[k].end_datetime # <<>>
                    /\ IF later # {}
                       THEN /\ \E s \in later : Inds[k].end_datetime = <<s.datetime>>
                            /\ \A s \in later : Inds[k].end_datetime[1] <= s.datetime
                       ELSE /\ \E s \in FastestSignals :
                                  Inds[k].end_datetime = <<s.datetime>>
                            /\ \A s \in FastestSignals :
                                  s.datetime <= Inds[k].end_datetime[1]

\* +1@1, +1@2 gives one indicator, ending at 2
C7_Witness ==
    /\ Called
    /\ FastestSignals = {[datetime |-> 1, value |-> 1], [datetime |-> 2, value |-> 1]}
    /\ Len(Inds) = 1
    /\ Inds[1].end_datetime = <<2>>

----------------------------------------------------------------------------
(* C8 *)

\* C8: a propagation is not dated before its parent, the tracked signal of its
\* chain one level below.
C8_NotBeforeParent ==
    Called => \A k \in 1..Len(Props) :
                /\ parents[k].propagationId = Props[k].propagation_id
                /\ parents[k].propagationLevel = Props[k].propagation_level - 1
                /\ Props[k].datetime >= parents[k].datetime

\* a propagation dated as its parent, and one dated after its parent
C8_Witness ==
    /\ Called
    /\ \E k \in 1..Len(Props) : Props[k].datetime = parents[k].datetime
    /\ \E k \in 1..Len(Props) : Props[k].datetime > parents[k].datetime

----------------------------------------------------------------------------
(* C9 *)

\* C9: the invocations on the same inputs return equal values.
C9_Deterministic ==
    \A a, b \in 1..Len(returned) : returned[a] = returned[b]

\* two invocations that emitted propagations
C9_Witness ==
    /\ Len(returned) >= 2
    /\ Len(Props) >= 2

----------------------------------------------------------------------------
(* C10 *)

\* C10: an invocation leaves the store, the filter and the candles as they are.
C10_InputsUnchanged ==
    [][/\ allPredictions' = allPredictions
       /\ selectedTimeframes' = selectedTimeframes
       /\ csvData' = csvData]_vars

\* after an invocation, the fastest timeframe's list is still out of order
C10_Witness ==
    /\ Called
    /\ LET l == PredictionsOf(allPredictions, TimeframeOfRank(0))
       IN  \E a, b \in 1..Len(l) : a < b /\ l[a].datetime > l[b].datetime
    /\ Len(Inds) >= 2

----------------------------------------------------------------------------
(* C11 *)

StoreKeys == {allPredictions[k].key : k \in 1..Len(allPredictions)}
FilterIds == {selectedTimeframes[k] : k \in 1..Len(selectedTimeframes)}
NoResult == [initialIndicators |-> <<>>, propagations |-> <<>>]

\* C11: a store with no timeframe, or a non-empty filter naming no timeframe of
\* the store, gives two empty lists.
C11_EmptyTimeframeSet ==
    (Called /\ (StoreKeys = {} \/ (FilterIds # {} /\ FilterIds \cap StoreKeys = {})))
        => Last = NoResult

\* a filter naming no timeframe of a store whose fastest timeframe has a
\* non-zero signal
C11_Witness ==
    /\ Called
    /\ FilterIds # {} /\ FilterIds \cap StoreKeys = {}
    /\ \E s \in SignalsOf(tf1m) : s.value # 0
    /\ Last = NoResult

----------------------------------------------------------------------------
(* C14 *)

\* the store without the timeframes a non-empty filter leaves out
Restricted ==
    IF FilterIds = {} THEN allPredictions
    ELSE SelectSeq(allPredictions, LAMBDA e : e.key \in FilterIds)
ResultOf(store, selected) ==
    LET r == extractTrendIndicators(store, selected, csvData, 0)
    IN  [initialIndicators |-> r.initialIndicators, propagations |-> r.propagations]

\* C14: the result under a non-empty filter is the result, with no filter, on
\* the store restricted to the filter's ids; the result under an empty filter
\* is the result under the filter that lists every timeframe of the store.
C14_FilterRestricts ==
    Called => /\ Last = ResultOf(Restricted, <<>>)
              /\ FilterIds = {} => Last = ResultOf(allPredictions, ObjectKeys(allPredictions))

\* the fastest timeframe of the store, holding a non-zero signal, filtered
\* out, and a propagation between the two others
C14_Witness ==
    /\ Called
    /\ selectedTimeframes = <<tf5m, tf1h>>
    /\ \E s \in SignalsOf(tf1m) : s.value # 0
    /\ \E k \in 1..Len(Props) :
          Props[k].higher_freq = tf5m /\ Props[k].lower_freq = tf1h

----------------------------------------------------------------------------
(* C12 *)

\* C12: when the fastest timeframe has no non-zero signal, both lists are empty.
C12_NothingSeeds ==
    (Called /\ \A s \in FastestSignals : s.value = 0) => Last = NoResult

\* a fastest timeframe of zeros only, non-zero signals on both slower ones
C12_Witness ==
    /\ Called
    /\ FastestSignals # {}
    /\ \A s \in FastestSignals : s.value = 0
    /\ \E s \in SignalsOf(TimeframeOfRank(1)) : s.value # 0
    /\ \E s \in SignalsOf(TimeframeOfRank(2)) : s.value # 0
    /\ Last = NoResult

----------------------------------------------------------------------------
(* C13 *)

HasCandle(datetime) == \E k \in 1..Len(csvData) : csvData[k].time = datetime

\* C13: an indicator or a propagation at a time without a candle has
\* open_price 0, and a propagation whose origin has open_price 0 has
\* directional_change_percent 0.
C13_MissingPrice ==
    Called =>
        /\ \A k \in 1..Len(Inds) :
              ~HasCandle(Inds[k].datetime) => Inds[k].open_price = 0
        /\ \A k \in 1..Len(Props) :
              /\ ~HasCandle(Props[k].datetime) => Props[k].open_price = 0
              /\ Origin(k).open_price = 0 =>
                    Props[k].directional_change_percent = Zero

\* a candle before an unpriced origin, and a priced propagation of its chain
C13_Witness ==
    /\ Called
    /\ \E k \in 1..Len(Props) :
          /\ ~HasCandle(Origin(k).datetime)
          /\ \E c \in 1..Len(csvData) : csvData[c].time < Origin(k).datetime
          /\ Origin(k).open_price = 0
          /\ Props[k].open_price # 0
          /\ Props[k].directional_change_percent = Zero

----------------------------------------------------------------------------
(* C15 *)

\* the fastest timeframe turns against propagation k after the origin of its
\* chain and not after the propagation
FlipsBefore(k) ==
    \E s \in FastestSignals :
        /\ s.value = -Props[k].trend_type
        /\ s.datetime > Origin(k).datetime
        /\ s.datetime <= Props[k].datetime

\* C15 as stated: no propagation, of any level, is dated at or after a turn of
\* the fastest timeframe that follows the origin of its chain.
C15_NoPropagationAfterFlip ==
    Called => \A k \in 1..Len(Props) : ~FlipsBefore(k)

\* C15 amended: no propagation of level 1 is dated at or after a turn of the
\* fastest timeframe that follows the origin of its chain; a propagation of
\* level 2 or more is checked against its parent's timeframe only.
C15_NoLevelOneAfterFlip ==
    Called => \A k \in 1..Len(Props) :
                Props[k].propagation_level = 1 => ~FlipsBefore(k)

\* a first signal of its direction on a slower timeframe that follows an
\* indicator of its direction and a turn of the fastest timeframe, rejected
C15_Witness ==
    /\ Called
    /\ Props = <<>>
    /\ \E n \in 1..Len(Inds) : \E c \in SignalsOf(TimeframeOfRank(1)) :
          /\ c.value = Inds[n].trend_type
          /\ \A e \in SignalsOf(TimeframeOfRank(1)) :
                ~(e.value = c.value /\ e.datetime < c.datetime)
          /\ \E s \in FastestSignals :
                /\ s.value = -c.value
                /\ s.datetime > Inds[n].datetime
                /\ s.datetime <= c.datetime

----------------------------------------------------------------------------
(* C16 *)

\* the tracked signal t is a candidate parent, not invalidated, of a signal of
\* value v at datetime d on the timeframe tf
ValidCandidate(t, tf, v, d) ==
    /\ RankOf(t.timeframe) < RankOf(tf)
    /\ t.trendType = v
    /\ t.datetime <= d
    /\ \A s \in SignalsOf(t.timeframe) :
          ~(s.value = -v /\ s.datetime > t.datetime /\ s.datetime <= d)
TrackedSet == {tracked[k] : k \in 1..Len(tracked)}
ValidFor(k) ==
    {t \in TrackedSet :
        ValidCandidate(t, Props[k].lower_freq, Props[k].trend_type, Props[k].datetime)}

----------------------------------------------------------------------------
(* C17 *)

\* C17: a level-1 propagation hangs from an initial indicator of the fastest
\* timeframe; a level-L one, L >= 2, from an earlier propagation of its id and
\* direction, of level L - 1, on its higher_freq; only the indicators and the
\* signals that produced a propagation are tracked.
C17_ChainsConnected ==
    Called =>
        /\ \A k \in 1..Len(Props) :
              IF Props[k].propagation_level = 1
              THEN /\ Props[k].higher_freq = TimeframeOfRank(0)
                   /\ \E n \in 1..Len(Inds) :
                         /\ Inds[n].datetime = parents[k].datetime
                         /\ Inds[n].trend_type = Props[k].trend_type
                         /\ Inds[n].timeframe = parents[k].timeframe
                         /\ parents[k].propagationLevel = 0
              ELSE \E j \in 1..(k - 1) :
                         /\ Props[j].propagation_id = Props[k].propagation_id
                         /\ Props[j].propagation_level = Props[k].propagation_level - 1
                         /\ Props[j].trend_type = Props[k].trend_type
                         /\ Props[j].lower_freq = Props[k].higher_freq
                         /\ Props[j].datetime = parents[k].datetime
        /\ Len(tracked) = Len(Inds) + Len(Props)

\* a signal dropped on the middle timeframe, and a later signal of its
\* direction on the slowest one that hangs from the fastest
C17_Witness ==
    /\ Called
    /\ \E d \in SignalsOf(TimeframeOfRank(1)) : \E k \in 1..Len(Props) :
          /\ d.value = Props[k].trend_type
          /\ d.datetime <= Props[k].datetime
          /\ \A j \in 1..Len(Props) : Props[j].lower_freq # TimeframeOfRank(1)
          /\ Props[k].lower_freq = TimeframeOfRank(2)
          /\ Props[k].higher_freq = TimeframeOfRank(0)

----------------------------------------------------------------------------
(* C18 *)

\* C18: the k-th tracked signal is the k-th initial indicator with the id
\* Prop_k, and every tracked signal and propagation carries the id of an
\* initial indicator of its direction.
C18_OnlyIndicatorsSeed ==
    Called =>
        /\ \A n \in 1..Len(Inds) :
              /\ tracked[n].propagationId = PropId(n)
              /\ tracked[n].propagationLevel = 0
              /\ tracked[n].datetime = Inds[n].datetime
              /\ tracked[n].trendType = Inds[n].trend_type
        /\ \A t \in TrackedSet :
              \E n \in 1..Len(Inds) :
                  t.propagationId = PropId(n) /\ t.trendType = Inds[n].trend_type
        /\ \A k \in 1..Len(Props) :
              \E n \in 1..Len(Inds) :
                  /\ Props[k].propagation_id = PropId(n)
                  /\ Props[k].trend_type = Inds[n].trend_type

\* two indicators, a propagation of the second, and a slower signal that had
\* no candidate parent
C18_Witness ==
    /\ Called
    /\ Len(Inds) >= 2
    /\ \E k \in 1..Len(Props) : Props[k].propagation_id = PropId(2)
    /\ \E c \in SignalsOf(TimeframeOfRank(1)) :
          /\ c.value # 0
          /\ \A t \in TrackedSet : ~(t.trendType = c.value /\ t.datetime <= c.datetime)

----------------------------------------------------------------------------
(* C19 *)

\* C19 as stated: the propagations of one lower_freq timeframe appear in
\* ascending datetime order, whatever the order of its input list.
C19_AscendingOnEveryTimeframe ==
    Called => \A j, k \in 1..Len(Props) :
                (j < k /\ Props[j].lower_freq = Props[k].lower_freq)
                => Props[j].datetime <= Props[k].datetime

\* C19 amended: the initial indicators appear in ascending datetime order
\* whatever the order of the fastest list, and the propagations of one
\* lower_freq timeframe appear in the order of their signals in its input list.
C19_FastestSortedOthersAsGiven ==
    Called =>
        /\ \A j, k \in 1..Len(Inds) : j < k => Inds[j].datetime <= Inds[k].datetime
        /\ \A j, k \in 1..Len(Props) :
              (j < k /\ Props[j].lower_freq = Props[k].lower_freq)
              => LET list == PredictionsOf(allPredictions, Props[j].lower_freq) IN
                 \E p, q \in 1..Len(list) :
                    /\ p < q
                    /\ list[p].datetime = Props[j].datetime
                    /\ list[p].value = Props[j].trend_type
                    /\ list[q].datetime = Props[k].datetime
                    /\ list[q].value = Props[k].trend_type

\* the fastest list and a slower list both given out of order, two indicators
\* and two propagations of the slower timeframe
C19_Witness ==
    /\ Called
    /\ Len(Inds) >= 2
    /\ LET fast == PredictionsOf(allPredictions, TimeframeOfRank(0)) IN
       \E p, q \in 1..Len(fast) : p < q /\ fast[p].datetime > fast[q].datetime
    /\ \E j, k \in 1..Len(Props) :
          /\ j < k
          /\ Props[j].lower_freq = Props[k].lower_freq
          /\ Props[j].datetime > Props[k].datetime

----------------------------------------------------------------------------
(* C20 *)

\* the store with every list put in ascending datetime order
AscendingStore ==
    [k \in 1..Len(allPredictions) |->
        [key |-> allPredictions[k].key,
         value |-> SortWith(allPredictions[k].value, CompareDatetime)]]
SetOf(seq) == {seq[k] : k \in 1..Len(seq)}

\* C20: whatever the order of the lists, the initial indicators are those of
\* the store with every list in ascending datetime order, and the propagations
\* are the same set.
C20_ListOrderIndependent ==
    Called =>
        LET r == ResultOf(AscendingStore, selectedTimeframes) IN
        /\ Inds = r.initialIndicators
        /\ SetOf(Props) = SetOf(r.propagations)
        /\ Len(Props) = Len(r.propagations)

\* a slower list that gives the repeat of a direction before its first
\* occurrence, and a propagation at the first occurrence
C20_Witness ==
    /\ Called
    /\ \E j \in 1..Len(Participating) :
          LET tf == Participating[j]
              list == PredictionsOf(allPredictions, tf) IN
          /\ RankOf(tf) > 0
          /\ \E p, q \in 1..Len(list) :
                /\ p < q
                /\ list[p].value = list[q].value
                /\ list[p].value # 0
                /\ list[p].datetime > list[q].datetime
                /\ \E k \in 1..Len(Props) :
                      /\ Props[k].lower_freq = tf
                      /\ Props[k].datetime = list[q].datetime


----------------------------------------------------------------------------
(* C21 *)

\* propagation j is a candidate parent, not invalidated, of propagation k
VisibleTo(j, k) ==
    /\ RankOf(Props[j].lower_freq) < RankOf(Props[k].lower_freq)
    /\ Props[j].trend_type = Props[k].trend_type
    /\ Props[j].datetime <= Props[k].datetime
    /\ \A s \in SignalsOf(Props[j].lower_freq) :
          ~(/\ s.value = -Props[k].trend_type
            /\ s.datetime > Props[j].datetime
            /\ s.datetime <= Props[k].datetime)

\* C21: the rank of lower_freq never decreases along the output list, the
\* parent of a propagation of level 2 or more is a propagation that comes
\* before it, and a propagation is one level at least above every propagation
\* of a faster timeframe that is a valid candidate for it.
C21_SinglePassFastestFirst ==
    Called =>
        /\ \A k \in 1..(Len(Props) - 1) :
              RankOf(Props[k].lower_freq) <= RankOf(Props[k + 1].lower_freq)
        /\ \A k \in 1..Len(Props) :
              Props[k].propagation_level >= 2 =>
                \E j \in 1..(k - 1) :
                    /\ Props[j].lower_freq = parents[k].timeframe
                    /\ Props[j].lower_freq = Props[k].higher_freq
                    /\ Props[j].datetime = parents[k].datetime
                    /\ Props[j].trend_type = parents[k].trendType
                    /\ Props[j].propagation_level = parents[k].propagationLevel
        /\ \A j, k \in 1..Len(Props) :
              VisibleTo(j, k) =>
                Props[k].propagation_level >= Props[j].propagation_level + 1

\* four timeframes: the signal of rank 3 hangs from the propagation of rank 1
\* while rank 2 holds a propagation of its own
C21_Witness ==
    /\ Called
    /\ Len(Participating) = 4
    /\ \E j, k, l \in 1..Len(Props) :
          /\ RankOf(Props[j].lower_freq) = 1
          /\ RankOf(Props[l].lower_freq) = 2
          /\ RankOf(Props[k].lower_freq) = 3
          /\ Props[k].higher_freq = Props[j].lower_freq
          /\ Props[k].propagation_level = 2


----------------------------------------------------------------------------
(* C22 *)

\* the duration in seconds the ids stand for; 0 for an id of no duration
DurationOf(tf) ==
    CASE tf = tf1s -> 1
      [] tf = tf60s -> 60
      [] tf = tf1m -> 60
      [] tf = tf5m -> 5 * 60
      [] tf = tf1h -> 3600
      [] tf = tf4h -> 4 * 3600
      [] tf = tf1d -> 86400
      [] tf = tf1w -> 604800
      [] tf = tf30d -> 30 * 86400
      [] tf = tf1mo -> 2592000
      [] OTHER -> 0

\* the place of a participating id when the ids are put in ascending duration,
\* ids of equal duration in the order of Object.keys
PlaceOf(tf) ==
    LET P == Participating
        at == CHOOSE j \in 1..Len(P) : P[j] = tf
    IN  Cardinality({j \in 1..Len(P) :
            \/ DurationOf(P[j]) < DurationOf(tf)
            \/ (DurationOf(P[j]) = DurationOf(tf) /\ j < at)})

\* C22: every participating id converts to its duration in seconds, 0 when it
\* does not parse; the initial indicators are those of the id placed first,
\* every tracked signal carries the place of its id as timeframeIndex, and a
\* propagation's higher_freq is placed before its lower_freq.
C22_TimeframeOrder ==
    Called =>
        /\ \A j \in 1..Len(Participating) :
              timeframeToSeconds(Participating[j]) = DurationOf(Participating[j])
        /\ \A n \in 1..Len(Inds) : PlaceOf(Inds[n].timeframe) = 0
        /\ \A k \in 1..Len(tracked) :
              tracked[k].timeframeIndex = PlaceOf(tracked[k].timeframe)
        /\ \A k \in 1..Len(Props) :
              PlaceOf(Props[k].higher_freq) < PlaceOf(Props[k].lower_freq)

\* two ids that do not parse, listed after a parsing one: the first of them
\* gives the indicators, the second confirms it
C22_Witness ==
    /\ Called
    /\ Participating = <<tf1h, tfd, tf5x>>
    /\ \E n \in 1..Len(Inds) : Inds[n].timeframe = tfd
    /\ \E k \in 1..Len(Props) :
          Props[k].higher_freq = tfd /\ Props[k].lower_freq = tf5x


----------------------------------------------------------------------------
(* C23 *)

\* the result of the loop-based version on the inputs
LoopResult ==
    LoopExtractTrendIndicators(allPredictions, selectedTimeframes, csvData)
LoopProps == LoopResult.propagations

\* the dynamic version emits a propagation for the signal of the loop-based
\* version's k-th propagation
AlsoEmitted(k) ==
    \E j \in 1..Len(Props) :
        /\ Props[j].datetime = LoopProps[k].datetime
        /\ Props[j].trend_type = LoopProps[k].trend_type
        /\ Props[j].lower_freq = LoopProps[k].lower_freq

\* the signal of the loop-based version's k-th propagation repeats a direction
\* its timeframe has shown before
RepeatsDirection(k) ==
    \E s \in SignalsOf(LoopProps[k].lower_freq) :
        s.value = LoopProps[k].trend_type /\ s.datetime < LoopProps[k].datetime

\* C23 as stated: every propagation of the loop-based version is emitted by
\* the dynamic version too.
C23_Generalizes ==
    Called => \A k \in 1..Len(LoopProps) : AlsoEmitted(k)

\* C23 amended: every propagation of the loop-based version whose signal is
\* the first of its direction on its timeframe is emitted by the dynamic
\* version too.
C23_GeneralizesOnFirstSignals ==
    Called => \A k \in 1..Len(LoopProps) : ~RepeatsDirection(k) => AlsoEmitted(k)

\* the loop-based version reaches level 2 on first signals and the dynamic
\* version emits them
C23_Witness ==
    /\ Called
    /\ \E k \in 1..Len(LoopProps) :
          /\ LoopProps[k].propagation_level = 2
          /\ ~RepeatsDirection(k)
          /\ AlsoEmitted(k)


----------------------------------------------------------------------------
(* C24 *)

\* the propagations confirmed on the timeframe tf in the direction v
PropsOn(tf, v) ==
    {k \in 1..Len(Props) : Props[k].lower_freq = tf /\ Props[k].trend_type = v}

\* C24: with at most one signal per timeframe and timestamp, a timeframe is
\* the lower_freq of at most one propagation per direction, and the output
\* holds at most 2 * (N - 1) propagations for N participating timeframes.
C24_AtMostOnePerDirection ==
    Called =>
        /\ \A j \in 1..Len(Participating) : \A v \in {-1, 1} :
              Cardinality(PropsOn(Participating[j], v)) <= 1
        /\ \A k \in 1..Len(Props) : RankOf(Props[k].lower_freq) > 0
        /\ Len(Props) <= 2 * (Len(Participating) - 1)

\* a timeframe confirmed once in each direction
C24_Witness ==
    /\ Called
    /\ \E j \in 1..Len(Participating) :
          /\ Cardinality(PropsOn(Participating[j], 1)) = 1
          /\ Cardinality(PropsOn(Participating[j], -1)) = 1


----------------------------------------------------------------------------
(* C25 *)

\* C25: the level of a propagation is at least 1 and at most the rank of its
\* lower_freq, hence at most N - 1 for N participating timeframes.
C25_LevelWithinRank ==
    Called => \A k \in 1..Len(Props) :
                /\ Props[k].propagation_level >= 1
                /\ Props[k].propagation_level <= RankOf(Props[k].lower_freq)
                /\ Props[k].propagation_level <= Len(Participating) - 1

\* four timeframes: a chain that reaches level 3 on the slowest one
C25_Witness ==
    /\ Called
    /\ \E k \in 1..Len(Props) :
          Props[k].propagation_level = 3 /\ RankOf(Props[k].lower_freq) = 3


----------------------------------------------------------------------------
(* C26 *)

\* C26: with at most one signal per timestamp on the fastest timeframe, the
\* initial indicators are in strictly ascending datetime order, neighbours
\* have opposite directions, every end_datetime is set and not before the
\* indicator, and the end_datetime of every indicator but the last is the
\* datetime of the next indicator.
C26_IndicatorsChained ==
    Called =>
        /\ \A n \in 1..Len(Inds) :
              /\ Inds[n].end_datetime # <<>>
              /\ Inds[n].end_datetime[1] >= Inds[n].datetime
        /\ \A n \in 1..(Len(Inds) - 1) :
              /\ Inds[n].datetime < Inds[n + 1].datetime
              /\ Inds[n].trend_type = -Inds[n + 1].trend_type
              /\ Inds[n].end_datetime = <<Inds[n + 1].datetime>>

\* two indicators from a fastest list given out of order, with a repeat of
\* the first direction before it turns
C26_Witness ==
    /\ Called
    /\ Len(Inds) = 2
    /\ Cardinality(FastestSignals) = 3
    /\ \E s \in FastestSignals :
          /\ s.value = Inds[1].trend_type
          /\ s.datetime > Inds[1].datetime
          /\ s.datetime < Inds[2].datetime
    /\ LET fast == PredictionsOf(allPredictions, TimeframeOfRank(0)) IN
       fast[1].datetime > fast[2].datetime


----------------------------------------------------------------------------
(* C27 *)

\* the store with the same ids and the same fastest list, every other list
\* emptied
FastestAlone ==
    [k \in 1..Len(allPredictions) |->
        IF allPredictions[k].key = TimeframeOfRank(0) THEN allPredictions[k]
        ELSE [allPredictions[k] EXCEPT !.value = <<>>]]

\* C27: the initial indicators are those the fastest list gives when every
\* slower list is empty, and the directional_change_percent of every one is 0.
C27_IndicatorsFromFastestOnly ==
    (Called /\ Len(Participating) > 0) =>
        /\ Inds = ResultOf(FastestAlone, selectedTimeframes).initialIndicators
        /\ \A n \in 1..Len(Inds) : Inds[n].directional_change_percent = Zero

\* an indicator confirmed on a slower timeframe at a time that is neither its
\* datetime nor its end_datetime
C27_Witness ==
    /\ Called
    /\ \E k \in 1..Len(Props) :
          /\ Props[k].datetime # Origin(k).datetime
          /\ <<Props[k].datetime>> # Origin(k).end_datetime


----------------------------------------------------------------------------
(* C28 *)

\* C28: a propagation at a time without a candle, in a chain whose origin has
\* a non-zero open_price, has open_price 0 and directional_change_percent
\* -100.
C28_UnpricedPropagation ==
    Called => \A k \in 1..Len(Props) :
                (~HasCandle(Props[k].datetime) /\ Origin(k).open_price # 0)
                => /\ Props[k].open_price = 0
                   /\ Props[k].directional_change_percent.den # 0
                   /\ Props[k].directional_change_percent.num =
                          -100 * Props[k].directional_change_percent.den

\* a priced origin confirmed at a time without a candle
C28_Witness ==
    /\ Called
    /\ \E k \in 1..Len(Props) :
          /\ HasCandle(Origin(k).datetime)
          /\ Origin(k).open_price # 0
          /\ ~HasCandle(Props[k].datetime)
          /\ Props[k].directional_change_percent # Zero


----------------------------------------------------------------------------
(* C29 *)

\* C29 as stated: csvDataCallbacks never holds more than one callback of the
\* prediction service, and one notifyCSVDataUpdates makes at most one call of
\* notifyAllPredictionUpdates.
C29_AtMostOneSubscription ==
    /\ Len(csvDataCallbacks) <= 1
    /\ lastCall = "notifyCSVDataUpdates" => notified <= 1

====
